---- MODULE Spec2Model ----
(***************************************************************************)
(* DeepSeek-for-Copilot: the streaming client (src/src/deepseekClient.ts)  *)
(* and the chat provider that owns the reasoning cache and the message     *)
(* bridge (src/src/provider.ts).                                           *)
(*                                                                         *)
(* Text values (fragments, names, ids) are TLA+ strings, "" being the      *)
(* empty / absent (falsy) value.  The response body is a sequence of       *)
(* tokens: one token per character of the SSE framing ('data: ', '[DONE]', *)
(* ':', blanks, '\n', '{', '}') and one token per member of a JSON delta   *)
(* payload, so that a chunk boundary can fall anywhere in a frame.         *)
(***************************************************************************)
EXTENDS Integers, Sequences, FiniteSets, TLC

\* ---------------------------------------------------------------- bounds
MaxFrames == 4
MaxSessions == 2
MaxToolFrames == 5
MaxChunkFrames == 3
MaxCalls == 51
MaxTurns == 2
MaxStreamFrames == 4
MaxReasoningFrames == 4

\* ------------------------------------------------------ program constants
MaxCacheSize == 50
PrefixLen == 6

\* ------------------------------------------------------------ wire tokens
\* One token of the response body.  k = "ch": the character v.  Other k: a
\* member of the first choice of a delta payload.
Tok(k, v, i, id, a) == [k |-> k, v |-> v, i |-> i, id |-> id, a |-> a]
Ch(c) == Tok("ch", c, 0, "", "")
NL == Ch("\n")
CR == Ch("\r")
SP == Ch(" ")
LBrace == Ch("{")
RBrace == Ch("}")
Colon == Ch(":")
\* delta.reasoning_content, delta.content, one element of delta.tool_calls,
\* finish_reason
Reasoning(t) == Tok("reasoning_content", t, 0, "", "")
Content(t) == Tok("content", t, 0, "", "")
ToolFrag(i, id, name, args) == Tok("tool_calls", name, i, id, args)
Finish(r) == Tok("finish_reason", r, 0, "", "")
\* "tool_calls": 5 -- a payload that parses but whose tool_calls is not iterable
BadToolCalls == Tok("bad_tool_calls", "", 0, "", "")

DataPrefix == <<Ch("d"), Ch("a"), Ch("t"), Ch("a"), Colon, SP>>
DoneSentinel == <<Ch("["), Ch("D"), Ch("O"), Ch("N"), Ch("E"), Ch("]")>>
DoneLine == DataPrefix \o DoneSentinel

\* --------------------------------------------------------- string helpers
IsSpace(t) == t.k = "ch" /\ t.v \in {" ", "\r", "\t"}

RECURSIVE TrimStart(_)
TrimStart(s) ==
    IF s /= <<>> /\ IsSpace(Head(s)) THEN TrimStart(Tail(s)) ELSE s

RECURSIVE TrimEnd(_)
TrimEnd(s) ==
    IF s /= <<>> /\ IsSpace(s[Len(s)]) THEN TrimEnd(SubSeq(s, 1, Len(s) - 1)) ELSE s

\* String.prototype.trim
Trim(s) == TrimEnd(TrimStart(s))

\* String.prototype.startsWith
StartsWith(s, p) == Len(s) >= Len(p) /\ SubSeq(s, 1, Len(p)) = p

\* String.prototype.slice(n)
Slice(s, n) == SubSeq(s, n + 1, Len(s))

\* String.prototype.split('\n'): the pieces between newlines, the last piece
\* being what follows the last newline (possibly empty)
RECURSIVE SplitFrom(_, _, _)
SplitFrom(s, i, cur) ==
    IF i > Len(s) THEN <<cur>>
    ELSE IF s[i] = NL THEN <<cur>> \o SplitFrom(s, i + 1, <<>>)
    ELSE SplitFrom(s, i + 1, Append(cur, s[i]))

SplitLines(s) == SplitFrom(s, 1, <<>>)

\* JSON.parse of a frame's payload: the members of choices[0], or "error"
\* (a SyntaxError) when the text is not a braced list of members.  The empty
\* object has no choices.
JsonOk(s) ==
    /\ Len(s) >= 2
    /\ s[1] = LBrace
    /\ s[Len(s)] = RBrace
    /\ \A j \in 2..(Len(s) - 1) : s[j].k /= "ch"

Members(s) == SubSeq(s, 2, Len(s) - 1)

RECURSIVE Concat(_)
Concat(ss) == IF ss = <<>> THEN "" ELSE Head(ss) \o Concat(Tail(ss))


\* ------------------------------------------------------------------ state
VARIABLES
    session,                  \* number of provideLanguageModelChatResponse calls so far
    isReasoner,               \* provider.ts:95
    reasoningCache,           \* provider.ts:41, a Map in insertion order: <<[key, value]>>
    deepseekMessages,         \* provider.ts:98, the wire messages of the request
    currentReasoningContent,  \* provider.ts:103
    toolCallIds,              \* provider.ts:104
    responseMessageId,        \* provider.ts:105
    progress,                 \* parts reported to the host through progress.report
    promise,                  \* the promise returned by provideLanguageModelChatResponse
    pc,                       \* where streamChatCompletion is suspended
    aborted,                  \* controller.signal.aborted
    listening,                \* cancelListener is registered and not yet disposed
    buffer,                   \* deepseekClient.ts:127
    pendingToolCalls,         \* deepseekClient.ts:129, a Map in insertion order
    token,                    \* cancellationToken.isCancellationRequested
    wire,                     \* bytes of the response body the server has yet to deliver
    body,                     \* the response body stream: none, open, closed, errored
    calls,                    \* history: the callbacks invoked in this session, in order
    drains,                   \* history: the number of pending entries at each drain
    endReason,                \* history: which exit path ended the session
    consumed,                 \* history: the bytes read from the body in this session
    stamp,                    \* history: tool-call fragments merged in this session
    inserted,                 \* history: keys newly inserted into the cache, in order
    conversation              \* history: the conversation of the current request

vars == <<session, isReasoner, reasoningCache, deepseekMessages,
          currentReasoningContent, toolCallIds, responseMessageId, progress, promise,
          pc, aborted, listening, buffer, pendingToolCalls, token, wire, body,
          calls, drains, endReason, consumed, stamp, inserted, conversation>>

\* ------------------------------------------------------ the reasoning cache
RECURSIVE MapIndex(_, _)
\* position of key k in the map, 0 when absent
MapIndex(m, k) ==
    IF m = <<>> THEN 0
    ELSE IF m[Len(m)].key = k THEN Len(m)
    ELSE MapIndex(SubSeq(m, 1, Len(m) - 1), k)

MapHas(m, k) == MapIndex(m, k) /= 0

\* Map.prototype.get, "" standing for undefined
MapGet(m, k) == IF MapHas(m, k) THEN m[MapIndex(m, k)].value ELSE ""

\* Map.prototype.set: a new key goes last, an existing key keeps its place
MapSet(m, k, v) ==
    IF MapHas(m, k) THEN [m EXCEPT ![MapIndex(m, k)].value = v]
    ELSE Append(m, [key |-> k, value |-> v])

\* provider.ts:148-153
EvictOldest(m) ==
    IF Len(m) > MaxCacheSize THEN SubSeq(m, Len(m) - MaxCacheSize + 1, Len(m)) ELSE m

\* --------------------------------------------------------- session record
\* One entry of the call history: the callback, its payload (v for a text, id,
\* name and args for a tool call) and, for a tool call, history of the pending
\* entry: its stream index, when it was created, the fragments it was built
\* from and the drain that delivered it.
Call(cb, v, tc, drain) ==
    [cb |-> cb, v |-> v, id |-> tc.id, name |-> tc.name, args |-> tc.arguments,
     index |-> tc.index, born |-> tc.born, nameFrags |-> tc.nameFrags,
     argFrags |-> tc.argFrags, drain |-> drain]

NoToolCall ==
    [index |-> 0, id |-> "", name |-> "", arguments |-> "",
     born |-> 0, nameFrags |-> <<>>, argFrags |-> <<>>]

Plain(cb, v) == Call(cb, v, NoToolCall, 0)

\* The mutable state one chunk of the read loop works on, as a record, so that
\* the synchronous processing of a chunk is one function of it.
St == [buffer |-> buffer, pending |-> pendingToolCalls,
       cur |-> currentReasoningContent, ids |-> toolCallIds,
       cache |-> reasoningCache, rid |-> responseMessageId,
       progress |-> progress, promise |-> promise,
       calls |-> calls, drains |-> drains, stamp |-> stamp,
       inserted |-> inserted, ret |-> ""]

\* the session record at the start of a session (provider.ts:97-105,
\* deepseekClient.ts:127-129)
Fresh == [buffer |-> <<>>, pending |-> <<>>, cur |-> "", ids |-> <<>>,
          cache |-> <<>>, rid |-> "", progress |-> <<>>, promise |-> "pending",
          calls |-> <<>>, drains |-> <<>>, stamp |-> 0, inserted |-> <<>>, ret |-> ""]

Install(s) ==
    /\ buffer' = s.buffer
    /\ pendingToolCalls' = s.pending
    /\ currentReasoningContent' = s.cur
    /\ toolCallIds' = s.ids
    /\ reasoningCache' = s.cache
    /\ responseMessageId' = s.rid
    /\ progress' = s.progress
    /\ promise' = s.promise
    /\ calls' = s.calls
    /\ drains' = s.drains
    /\ stamp' = s.stamp
    /\ inserted' = s.inserted

\* ------------------------------------------------- the provider's callbacks
\* a LanguageModelTextPart (value) or LanguageModelToolCallPart (callId, name,
\* value = the input)
Part(p, callId, name, value) ==
    [part |-> p, callId |-> callId, name |-> name, value |-> value]

\* provider.ts:116-118
OnContent(s, content) ==
    [s EXCEPT !.progress = Append(@, Part("text", "", "", content)),
              !.calls = Append(@, Plain("onContent", content))]

\* provider.ts:119-121
OnReasoningContent(s, content) ==
    [s EXCEPT !.cur = @ \o content,
              !.calls = Append(@, Plain("onReasoningContent", content))]

\* The argument strings JSON.parse accepts, among those the model's streams
\* can accumulate.
JsonTexts == {"{}", "{\"a\":1}"}

\* provider.ts:128-137: the parsed arguments, {} when they do not parse
ParseArguments(a) == IF a \in JsonTexts THEN a ELSE "{}"

CacheWrite(s, k) ==
    [s EXCEPT !.cache = MapSet(@, k, s.cur),
              !.inserted = IF MapHas(s.cache, k) THEN @ ELSE Append(@, k)]

\* OnToolCall without the reset of currentReasoningContent (provider.ts:126)
OnToolCallKeepsReasoning(s, tc, d) ==
    LET s1 == [s EXCEPT !.ids = Append(@, tc.id)]
        s2 == IF isReasoner /\ s1.cur /= "" THEN CacheWrite(s1, tc.id) ELSE s1
    IN  [s2 EXCEPT
            !.progress = Append(@, Part("toolCall", tc.id, tc.name,
                                         ParseArguments(tc.arguments))),
            !.calls = Append(@, Call("onToolCall", "", tc, d))]

\* provider.ts:122-138 without the isReasoner test of line 124
OnToolCallAnyModel(s, tc, d) ==
    LET s1 == [s EXCEPT !.ids = Append(@, tc.id)]
        s2 == IF s1.cur /= ""
              THEN [CacheWrite(s1, tc.id) EXCEPT !.cur = ""]
              ELSE s1
    IN  [s2 EXCEPT
            !.progress = Append(@, Part("toolCall", tc.id, tc.name,
                                         ParseArguments(tc.arguments))),
            !.calls = Append(@, Call("onToolCall", "", tc, d))]

\* provider.ts:122-138; d is the number of the drain that delivers tc
OnToolCall(s, tc, d) ==
    LET s1 == [s EXCEPT !.ids = Append(@, tc.id)]
        s2 == IF isReasoner /\ s1.cur /= ""
              THEN [CacheWrite(s1, tc.id) EXCEPT !.cur = ""]
              ELSE s1
    IN  [s2 EXCEPT
            !.progress = Append(@, Part("toolCall", tc.id, tc.name,
                                         ParseArguments(tc.arguments))),
            !.calls = Append(@, Call("onToolCall", "", tc, d))]

\* provider.ts:139-141
OnError(s, message) ==
    [s EXCEPT !.promise = "rejected",
              !.calls = Append(@, Plain("onError", message))]

\* provider.ts:144: `response_${Date.now()}_${random}`, fresh in every session
SyntheticId == "response_" \o ToString(session)

\* provider.ts:142-155 without the store of lines 143-146
OnDoneWithoutSynthetic(s) ==
    [s EXCEPT !.cache = EvictOldest(@),
              !.promise = "resolved",
              !.calls = Append(@, Plain("onDone", ""))]

\* provider.ts:142-155
OnDone(s) ==
    LET s1 == IF isReasoner /\ s.cur /= ""
              THEN [CacheWrite(s, SyntheticId) EXCEPT !.rid = SyntheticId]
              ELSE s
    IN  [s1 EXCEPT !.cache = EvictOldest(@),
                   !.promise = "resolved",
                   !.calls = Append(@, Plain("onDone", ""))]


\* ------------------------------------------------- the tool-call accumulator
\* position in the pending map of the entry at stream index i, 0 when absent
RECURSIVE PendingIndex(_, _)
PendingIndex(p, i) ==
    IF p = <<>> THEN 0
    ELSE IF p[Len(p)].index = i THEN Len(p)
    ELSE PendingIndex(SubSeq(p, 1, Len(p) - 1), i)

\* deepseekClient.ts:185-192; born, nameFrags and argFrags are history: when the
\* entry was created and the fragments received at its index since
NewPending(tc, born) ==
    [index |-> tc.i, id |-> tc.id, name |-> "", arguments |-> "",
     born |-> born, nameFrags |-> <<>>, argFrags |-> <<>>]

\* deepseekClient.ts:196-203 with `=` in place of `+=`
AppendFragmentReplaces(e, tc) ==
    [e EXCEPT !.name = IF tc.v /= "" THEN tc.v ELSE @,
              !.arguments = IF tc.a /= "" THEN tc.a ELSE @,
              !.nameFrags = Append(@, tc.v),
              !.argFrags = Append(@, tc.a)]

\* deepseekClient.ts:196-203
AppendFragment(e, tc) ==
    [e EXCEPT !.name = IF tc.v /= "" THEN @ \o tc.v ELSE @,
              !.arguments = IF tc.a /= "" THEN @ \o tc.a ELSE @,
              !.nameFrags = Append(@, tc.v),
              !.argFrags = Append(@, tc.a)]

\* deepseekClient.ts:182-203: one element of delta.tool_calls
MergeToolCall(s, tc) ==
    LET pos == PendingIndex(s.pending, tc.i)
        n == s.stamp + 1
    IN  IF pos /= 0
        THEN [s EXCEPT !.pending[pos] = AppendFragment(@, tc), !.stamp = n]
        ELSE IF tc.id /= ""
        THEN [s EXCEPT !.pending = Append(@, AppendFragment(NewPending(tc, n), tc)),
                       !.stamp = n]
        ELSE [s EXCEPT !.stamp = n]

RECURSIVE MergeAll(_, _)
\* deepseekClient.ts:181-204
MergeAll(s, tcs) ==
    IF tcs = <<>> THEN s ELSE MergeAll(MergeToolCall(s, Head(tcs)), Tail(tcs))

RECURSIVE DeliverAll(_, _, _)
\* for (const toolCall of pendingToolCalls.values()) callbacks.onToolCall(toolCall)
DeliverAll(s, p, d) ==
    IF p = <<>> THEN s ELSE DeliverAll(OnToolCall(s, Head(p), d), Tail(p), d)

RECURSIVE SortByIndex(_)
\* the entries in ascending stream-index order
SortByIndex(p) ==
    IF p = <<>> THEN <<>>
    ELSE LET m == CHOOSE j \in 1..Len(p) : \A l \in 1..Len(p) : p[j].index <= p[l].index
         IN  <<p[m]>> \o SortByIndex(SubSeq(p, 1, m - 1) \o SubSeq(p, m + 1, Len(p)))

\* Map.prototype.values() handing the entries out by ascending key
ValuesByIndex(p) == SortByIndex(p)

\* Map.prototype.values(): the entries in insertion order
Values(p) == p

\* deepseekClient.ts:156-158 and 208-210: every pending entry goes to onToolCall
Drain(s) ==
    LET d == Len(s.drains) + 1
    IN  DeliverAll([s EXCEPT !.drains = Append(@, Len(s.pending))], Values(s.pending), d)


\* ------------------------------------------------------------ the read loop
\* the value of member k of the delta ("" when absent)
FieldVal(m, k) ==
    LET hits == SelectSeq(m, LAMBDA t : t.k = k)
    IN  IF hits = <<>> THEN "" ELSE hits[1].v

\* deepseekClient.ts:168-212 with `else if` at line 176: the content of a delta
\* that also carries reasoning is not forwarded
ProcessDeltaElseIf(s, m) ==
    LET r == FieldVal(m, "reasoning_content")
        c == FieldVal(m, "content")
        tcs == SelectSeq(m, LAMBDA t : t.k = "tool_calls")
        throws == SelectSeq(m, LAMBDA t : t.k = "bad_tool_calls") /= <<>>
        s2 == IF r /= "" THEN OnReasoningContent(s, r)
              ELSE IF c /= "" THEN OnContent(s, c) ELSE s
        s3 == MergeAll(s2, tcs)
    IN  IF throws THEN s2
        ELSE IF FieldVal(m, "finish_reason") = "tool_calls"
        THEN [Drain(s3) EXCEPT !.pending = <<>>]
        ELSE s3

\* deepseekClient.ts:168-212 without the clear of line 211
ProcessDeltaKeepsPending(s, m) ==
    LET r == FieldVal(m, "reasoning_content")
        c == FieldVal(m, "content")
        tcs == SelectSeq(m, LAMBDA t : t.k = "tool_calls")
        throws == SelectSeq(m, LAMBDA t : t.k = "bad_tool_calls") /= <<>>
        s1 == IF r /= "" THEN OnReasoningContent(s, r) ELSE s
        s2 == IF c /= "" THEN OnContent(s1, c) ELSE s1
        s3 == MergeAll(s2, tcs)
    IN  IF throws THEN s2
        ELSE IF FieldVal(m, "finish_reason") = "tool_calls"
        THEN Drain(s3)
        ELSE s3

\* deepseekClient.ts:168-212: one parsed payload with a first choice.  A
\* tool_calls member that is not iterable throws at line 181, after the content
\* callbacks, and the catch at line 213 swallows it.
ProcessDelta(s, m) ==
    LET r == FieldVal(m, "reasoning_content")
        c == FieldVal(m, "content")
        tcs == SelectSeq(m, LAMBDA t : t.k = "tool_calls")
        throws == SelectSeq(m, LAMBDA t : t.k = "bad_tool_calls") /= <<>>
        s1 == IF r /= "" THEN OnReasoningContent(s, r) ELSE s
        s2 == IF c /= "" THEN OnContent(s1, c) ELSE s1
        s3 == MergeAll(s2, tcs)
    IN  IF throws THEN s2
        ELSE IF FieldVal(m, "finish_reason") = "tool_calls"
        THEN [Drain(s3) EXCEPT !.pending = <<>>]
        ELSE s3

\* deepseekClient.ts:149-217 without the try / catch of lines 166 and 213: a
\* payload that does not parse ends the session through the outer catch
ProcessLineAbortsOnBadFrame(s, line) ==
    LET trimmed == Trim(line)
        jsonStr == Slice(trimmed, PrefixLen)
    IN  IF trimmed = <<>> \/ StartsWith(trimmed, <<Colon>>) THEN s
        ELSE IF trimmed = DoneLine THEN [OnDone(Drain(s)) EXCEPT !.ret = "DONE"]
        ELSE IF StartsWith(trimmed, DataPrefix)
        THEN IF JsonOk(jsonStr) /\ Members(jsonStr) /= <<>>
             THEN ProcessDelta(s, Members(jsonStr))
             ELSE IF JsonOk(jsonStr) THEN s
             ELSE [OnError(s, "Unexpected end of JSON input") EXCEPT !.ret = "error"]
        ELSE s

\* deepseekClient.ts:149-217 without the return at line 160
ProcessLineNoReturn(s, line) ==
    LET trimmed == Trim(line)
        jsonStr == Slice(trimmed, PrefixLen)
    IN  IF trimmed = <<>> \/ StartsWith(trimmed, <<Colon>>) THEN s
        ELSE IF trimmed = DoneLine THEN OnDone(Drain(s))
        ELSE IF StartsWith(trimmed, DataPrefix)
        THEN IF JsonOk(jsonStr) /\ Members(jsonStr) /= <<>>
             THEN ProcessDelta(s, Members(jsonStr))
             ELSE s
        ELSE s

\* deepseekClient.ts:149-217: one line of the buffer
ProcessLine(s, line) ==
    LET trimmed == Trim(line)
        jsonStr == Slice(trimmed, PrefixLen)
    IN  IF trimmed = <<>> \/ StartsWith(trimmed, <<Colon>>) THEN s
        ELSE IF trimmed = DoneLine THEN [OnDone(Drain(s)) EXCEPT !.ret = "DONE"]
        ELSE IF StartsWith(trimmed, DataPrefix)
        THEN IF JsonOk(jsonStr) /\ Members(jsonStr) /= <<>>
             THEN ProcessDelta(s, Members(jsonStr))
             ELSE s
        ELSE s

RECURSIVE ProcessLines(_, _)
\* deepseekClient.ts:148-218: the lines in order, up to the return at line 160
ProcessLines(s, lines) ==
    IF lines = <<>> \/ s.ret /= "" THEN s
    ELSE ProcessLines(ProcessLine(s, Head(lines)), Tail(lines))

\* deepseekClient.ts:143-146 forgetting the partial line
FeedDropsPartial(s, chunk) ==
    LET lines == SplitLines(s.buffer \o chunk)
    IN  ProcessLines([s EXCEPT !.buffer = <<>>], SubSeq(lines, 1, Len(lines) - 1))

\* deepseekClient.ts:143-218: one chunk: append to the buffer, split, keep the
\* part after the last newline, process the complete lines
Feed(s, chunk) ==
    LET lines == SplitLines(s.buffer \o chunk)
    IN  ProcessLines([s EXCEPT !.buffer = lines[Len(lines)]],
                     SubSeq(lines, 1, Len(lines) - 1))

\* ------------------------------------------------------- the message bridge
\* A content part of a turn: text (value), toolCall (callId, name, value = the
\* input as JSON text) or toolResult (callId, items = its content).
TextPart(v) == [type |-> "text", value |-> v, callId |-> "", name |-> "", items |-> <<>>]
ToolCallPart(id, n, input) ==
    [type |-> "toolCall", value |-> input, callId |-> id, name |-> n, items |-> <<>>]
ToolResultPart(id, items) ==
    [type |-> "toolResult", value |-> "", callId |-> id, name |-> "", items |-> items]

\* a wire message; has = the optional fields that are present
Wire(role, content, has, id, tcs, rc) ==
    [role |-> role, content |-> content, has |-> has, tool_call_id |-> id,
     tool_calls |-> tcs, reasoning_content |-> rc]

\* provider.ts:267-276
MapRole(role) == IF role = "Assistant" THEN "assistant" ELSE "user"

RECURSIVE TextOf(_)
\* the concatenated values of the text parts
TextOf(parts) ==
    IF parts = <<>> THEN ""
    ELSE (IF Head(parts).type = "text" THEN Head(parts).value ELSE "") \o TextOf(Tail(parts))

RECURSIVE Stringify(_)
\* JSON.stringify of a tool result's content array, item by item
Stringify(items) ==
    IF items = <<>> THEN ""
    ELSE "{" \o Head(items).type \o ":" \o Head(items).value \o "}" \o Stringify(Tail(items))

\* provider.ts:202-209
WireToolCall(part) ==
    [id |-> part.callId, type |-> "function", name |-> part.name, arguments |-> part.value]

\* provider.ts:211-220
WireToolResult(part) ==
    LET toolContent == TextOf(part.items)
    IN  [callId |-> part.callId,
         content |-> IF toolContent /= "" THEN toolContent
                     ELSE "[" \o Stringify(part.items) \o "]"]

RECURSIVE Collect(_, _)
Collect(parts, type) ==
    IF parts = <<>> THEN <<>>
    ELSE (IF Head(parts).type = type THEN <<Head(parts)>> ELSE <<>>)
         \o Collect(Tail(parts), type)

RECURSIVE LastCached(_, _)
\* provider.ts:228-234 without the break: the last cached tool call wins
LastCached(tcs, cache) ==
    IF tcs = <<>> THEN ""
    ELSE IF MapGet(cache, tcs[Len(tcs)].callId) /= "" THEN MapGet(cache, tcs[Len(tcs)].callId)
    ELSE LastCached(SubSeq(tcs, 1, Len(tcs) - 1), cache)

RECURSIVE FirstCached(_, _)
\* provider.ts:228-234: the cached text of the first tool call that has one
FirstCached(tcs, cache) ==
    IF tcs = <<>> THEN ""
    ELSE IF MapGet(cache, Head(tcs).callId) /= "" THEN MapGet(cache, Head(tcs).callId)
    ELSE FirstCached(Tail(tcs), cache)

\* provider.ts:251 with `else` in place of `else if (content)`
ConvertTurnKeepsEmptyUser(message, reasoner, cache) ==
    LET role == MapRole(message.role)
        content == TextOf(message.content)
        toolCalls == Collect(message.content, "toolCall")
        results == Collect(message.content, "toolResult")
        toolResults == [j \in 1..Len(results) |-> WireToolResult(results[j])]
        primary ==
            IF role = "assistant"
            THEN <<Wire("assistant", content,
                        (IF toolCalls /= <<>> THEN {"tool_calls"} ELSE {})
                            \cup (IF reasoner THEN {"reasoning_content"} ELSE {}),
                        "", [j \in 1..Len(toolCalls) |-> WireToolCall(toolCalls[j])],
                        IF reasoner THEN FirstCached(toolCalls, cache) ELSE "")>>
            ELSE <<Wire(role, content, {}, "", <<>>, "")>>
        ToolMessage(tr) == Wire("tool", tr.content, {"tool_call_id"}, tr.callId, <<>>, "")
    IN  primary \o [j \in 1..Len(toolResults) |-> ToolMessage(toolResults[j])]

\* provider.ts:224-261 with the loop of lines 255-261 moved before line 224
ConvertTurnResultsFirst(message, reasoner, cache) ==
    LET role == MapRole(message.role)
        content == TextOf(message.content)
        toolCalls == Collect(message.content, "toolCall")
        results == Collect(message.content, "toolResult")
        toolResults == [j \in 1..Len(results) |-> WireToolResult(results[j])]
        primary ==
            IF role = "assistant"
            THEN <<Wire("assistant", content,
                        (IF toolCalls /= <<>> THEN {"tool_calls"} ELSE {})
                            \cup (IF reasoner THEN {"reasoning_content"} ELSE {}),
                        "", [j \in 1..Len(toolCalls) |-> WireToolCall(toolCalls[j])],
                        IF reasoner THEN FirstCached(toolCalls, cache) ELSE "")>>
            ELSE IF content /= "" THEN <<Wire(role, content, {}, "", <<>>, "")>>
            ELSE <<>>
        ToolMessage(tr) == Wire("tool", tr.content, {"tool_call_id"}, tr.callId, <<>>, "")
    IN  [j \in 1..Len(toolResults) |-> ToolMessage(toolResults[j])] \o primary

\* provider.ts:188-261: the wire messages of one turn
ConvertTurn(message, reasoner, cache) ==
    LET role == MapRole(message.role)
        content == TextOf(message.content)
        toolCalls == Collect(message.content, "toolCall")
        results == Collect(message.content, "toolResult")
        toolResults == [j \in 1..Len(results) |-> WireToolResult(results[j])]
        primary ==
            IF role = "assistant"
            THEN <<Wire("assistant", content,
                        (IF toolCalls /= <<>> THEN {"tool_calls"} ELSE {})
                            \cup (IF reasoner THEN {"reasoning_content"} ELSE {}),
                        "", [j \in 1..Len(toolCalls) |-> WireToolCall(toolCalls[j])],
                        IF reasoner THEN FirstCached(toolCalls, cache) ELSE "")>>
            ELSE IF content /= "" THEN <<Wire(role, content, {}, "", <<>>, "")>>
            ELSE <<>>
        ToolMessage(tr) == Wire("tool", tr.content, {"tool_call_id"}, tr.callId, <<>>, "")
    IN  primary \o [j \in 1..Len(toolResults) |-> ToolMessage(toolResults[j])]

RECURSIVE ConvertMessages(_, _, _)
\* provider.ts:181-265, reading the cache as it is when the function is called
ConvertMessages(messages, reasoner, cache) ==
    IF messages = <<>> THEN <<>>
    ELSE ConvertTurn(Head(messages), reasoner, cache)
         \o ConvertMessages(Tail(messages), reasoner, cache)

\* an exception: its name and message
Err(name, message) == [name |-> name, message |-> message]
AbortError == Err("AbortError", "This operation was aborted")

\* deepseekClient.ts:222-227 without the AbortError case
CatchReportsAbort(s, error) == OnError(s, error.message)

\* deepseekClient.ts:222-227
Catch(s, error) ==
    IF error.name = "AbortError" THEN OnDone(s) ELSE OnError(s, error.message)

\* ------------------------------------------------------------- environment
Models == {"deepseek-chat", "deepseek-reasoner"}

\* a 'data: {...}' frame with its newline
Frame(members) == DataPrefix \o <<LBrace>> \o members \o <<RBrace, NL>>
DoneFrame == DoneLine \o <<NL>>

RECURSIVE Flatten(_)
Flatten(ss) == IF ss = <<>> THEN <<>> ELSE Head(ss) \o Flatten(Tail(ss))

\* the response bodies made of at most n frames of F
Streams(F, n) == {Flatten(fs) : fs \in UNION {[1..k -> F] : k \in 0..n}}

\* the response bodies of at most n frames: frames of F, then the terminator
\* frame or nothing (the socket just closes)
Terminated(F, n) ==
    Streams(F, n) \cup {w \o DoneFrame : w \in Streams(F, n - 1)}

\* a non-2xx response: status and body text; parses = the text is JSON,
\* errorMessage = its error.message, message = its message ("" when absent)
ErrorBody(status, raw, parses, errorMessage, message) ==
    [status |-> status, raw |-> raw, parses |-> parses,
     errorMessage |-> errorMessage, message |-> message]

\* deepseekClient.ts:113 without the `|| errorJson.message` alternative
ExtractMessageSkipsMessage(b) ==
    IF ~b.parses THEN b.raw
    ELSE IF b.errorMessage /= "" THEN b.errorMessage
    ELSE b.raw

\* deepseekClient.ts:111-116
ExtractMessage(b) ==
    IF ~b.parses THEN b.raw
    ELSE IF b.errorMessage /= "" THEN b.errorMessage
    ELSE IF b.message /= "" THEN b.message
    ELSE b.raw

\* deepseekClient.ts:118
ApiError(b) == "DeepSeek API error (" \o b.status \o "): " \o ExtractMessage(b)

\* chunk lengths: any split of what is on the wire, or only after a newline
AnyLen(w) == 1..Len(w)
LineLen(w) == {n \in 1..Len(w) : w[n] = NL \/ n = Len(w)}

\* -------------------------------------------------------------------- Init
Init ==
    /\ session = 0
    /\ isReasoner = FALSE
    /\ reasoningCache = <<>>
    /\ deepseekMessages = <<>>
    /\ currentReasoningContent = ""
    /\ toolCallIds = <<>>
    /\ responseMessageId = ""
    /\ progress = <<>>
    /\ promise = "none"
    /\ pc = "idle"
    /\ aborted = FALSE
    /\ listening = FALSE
    /\ buffer = <<>>
    /\ pendingToolCalls = <<>>
    /\ token = FALSE
    /\ wire = <<>>
    /\ body = "none"
    /\ calls = <<>>
    /\ drains = <<>>
    /\ endReason = ""
    /\ consumed = <<>>
    /\ stamp = 0
    /\ inserted = <<>>
    /\ conversation = <<>>

\* ----------------------------------------------------------------- actions
clientVars == <<buffer, pendingToolCalls>>
providerVars == <<currentReasoningContent, toolCallIds, reasoningCache,
                  responseMessageId, progress, promise>>
historyVars == <<calls, drains, stamp, inserted>>
requestVars == <<session, isReasoner, deepseekMessages, conversation>>

\* provider.ts:79-159 up to the first await of streamChatCompletion
\* (deepseekClient.ts:87-105): a new session, the previous one being over
ProvideResponse(models, convs, maxSessions) ==
    /\ pc \in {"idle", "done"}
    /\ session < maxSessions
    /\ \E m \in models, conv \in convs :
          /\ isReasoner' = (m = "deepseek-reasoner")
          /\ reasoningCache' = <<>>
          /\ deepseekMessages' = ConvertMessages(conv, isReasoner', reasoningCache')
          /\ conversation' = conv
    /\ session' = session + 1
    /\ currentReasoningContent' = ""
    /\ toolCallIds' = <<>>
    /\ responseMessageId' = ""
    /\ progress' = <<>>
    /\ promise' = "pending"
    /\ pc' = "fetch"
    /\ aborted' = FALSE
    /\ listening' = TRUE
    /\ buffer' = <<>>
    /\ pendingToolCalls' = <<>>
    /\ token' = FALSE
    /\ wire' = <<>>
    /\ body' = "none"
    /\ calls' = <<>>
    /\ drains' = <<>>
    /\ endReason' = ""
    /\ consumed' = <<>>
    /\ stamp' = 0
    /\ inserted' = <<>>

\* a terminal callback has run and the finally block (deepseekClient.ts:228-230)
\* has disposed the listener
Exit(s, reason, b) ==
    /\ Install(s)
    /\ pc' = "done"
    /\ listening' = FALSE
    /\ endReason' = reason
    /\ body' = b
    /\ UNCHANGED <<requestVars, aborted, token>>

\* the host cancels the token; the listener (deepseekClient.ts:89-91) aborts the
\* controller, which errors the body of the response if there is one
Cancel ==
    /\ pc \in {"fetch", "text", "loop", "read"}
    /\ ~token
    /\ token' = TRUE
    /\ aborted' = (aborted \/ listening)
    /\ body' = IF listening /\ body = "open" THEN "errored" ELSE body
    /\ UNCHANGED <<requestVars, clientVars, providerVars, historyVars, pc, listening,
                   wire, endReason, consumed>>

\* deepseekClient.ts:94-125: fetch resolves with a 2xx response that has a body
FetchOk(streams) ==
    /\ pc = "fetch"
    /\ ~aborted
    /\ \E w \in streams : wire' = w
    /\ body' = "open"
    /\ pc' = "loop"
    /\ UNCHANGED <<requestVars, clientVars, providerVars, historyVars, aborted,
                   listening, token, endReason, consumed>>

\* deepseekClient.ts:107-108: fetch resolves with a non-2xx response
FetchNotOk(bodies) ==
    /\ pc = "fetch"
    /\ ~aborted
    /\ \E b \in bodies : wire' = <<b>>
    /\ body' = "open"
    /\ pc' = "text"
    /\ UNCHANGED <<requestVars, clientVars, providerVars, historyVars, aborted,
                   listening, token, endReason, consumed>>

\* deepseekClient.ts:121-123: a 2xx response without a body
FetchNoBody ==
    /\ pc = "fetch"
    /\ ~aborted
    /\ Exit(Catch(St, Err("Error", "No response body received")), "error", "none")
    /\ UNCHANGED <<wire, consumed>>

\* deepseekClient.ts:94, 222-227: fetch rejects with a transport failure
FetchFail ==
    /\ pc = "fetch"
    /\ ~aborted
    /\ Exit(Catch(St, Err("TypeError", "fetch failed")), "error", "none")
    /\ UNCHANGED <<wire, consumed>>

\* deepseekClient.ts:94, 223-226: fetch rejects with the AbortError of the signal
FetchAbort ==
    /\ pc = "fetch"
    /\ aborted
    /\ Exit(Catch(St, AbortError), "abort", body)
    /\ UNCHANGED <<wire, consumed>>

\* deepseekClient.ts:108-118: the error body is read to its end and reported
TextOk ==
    /\ pc = "text"
    /\ ~aborted
    /\ Exit(Catch(St, Err("Error", ApiError(wire[1]))), "error", "closed")
    /\ wire' = <<>>
    /\ consumed' = wire

\* deepseekClient.ts:108: reading the error body fails
TextFail ==
    /\ pc = "text"
    /\ ~aborted
    /\ Exit(Catch(St, Err("TypeError", "terminated")), "error", "errored")
    /\ UNCHANGED <<wire, consumed>>

\* deepseekClient.ts:108, 223-226: reading the error body is aborted
TextAbort ==
    /\ pc = "text"
    /\ aborted
    /\ Exit(Catch(St, AbortError), "abort", body)
    /\ UNCHANGED <<wire, consumed>>

\* deepseekClient.ts:131-137: top of the read loop
LoopTop ==
    /\ pc = "loop"
    /\ IF token
       THEN /\ Exit(OnDone(St), "cancel", IF body = "open" THEN "errored" ELSE body)
            /\ UNCHANGED <<wire, consumed>>
       ELSE /\ pc' = "read"
            /\ UNCHANGED <<requestVars, clientVars, providerVars, historyVars, aborted,
                           listening, token, wire, body, endReason, consumed>>

\* deepseekClient.ts:137-218: read resolves with a chunk
ReadChunk(lens) ==
    /\ pc = "read"
    /\ ~aborted
    /\ wire /= <<>>
    /\ \E n \in lens :
          LET chunk == SubSeq(wire, 1, n)
              s == Feed(St, chunk)
          IN  /\ wire' = SubSeq(wire, n + 1, Len(wire))
              /\ consumed' = consumed \o chunk
              /\ IF s.ret /= ""
                 THEN Exit(s, s.ret, body)
                 ELSE /\ Install(s)
                      /\ pc' = "loop"
                      /\ UNCHANGED <<requestVars, aborted, listening, token, body,
                                     endReason>>

\* deepseekClient.ts:137-141, 221: the socket closes, read resolves with done
ReadDone ==
    /\ pc = "read"
    /\ ~aborted
    /\ wire = <<>>
    /\ Exit(OnDone(St), "close", "closed")
    /\ UNCHANGED <<wire, consumed>>

\* deepseekClient.ts:137, 222-227: read rejects with a transport failure
ReadFail ==
    /\ pc = "read"
    /\ ~aborted
    /\ Exit(Catch(St, Err("TypeError", "terminated")), "error", "errored")
    /\ UNCHANGED <<wire, consumed>>

\* deepseekClient.ts:137, 223-226: read rejects with the AbortError of the signal
ReadAbort ==
    /\ pc = "read"
    /\ aborted
    /\ Exit(Catch(St, AbortError), "abort", body)
    /\ UNCHANGED <<wire, consumed>>

\* ------------------------------------------------- Spec: sessions end to end
SessionFrames ==
    { Frame(<<Content("x")>>),
      Frame(<<Reasoning("r")>>),
      Frame(<<ToolFrag(0, "A", "f", "{}")>>),
      Frame(<<Finish("tool_calls")>>) }

SessionBodies ==
    { ErrorBody("401", "{\"error\":{\"message\":\"bad key\"}}", TRUE, "bad key", ""),
      ErrorBody("400", "{\"message\":\"bad request\"}", TRUE, "", "bad request"),
      ErrorBody("500", "{\"error\":{\"message\":\"\"},\"message\":\"down\"}", TRUE, "", "down"),
      ErrorBody("503", "{\"code\":503}", TRUE, "", ""),
      ErrorBody("502", "Bad Gateway", FALSE, "", "") }

SessionConversations ==
    { <<[role |-> "User", content |-> <<TextPart("hi")>>],
        [role |-> "Assistant", content |-> <<ToolCallPart("A", "f", "{}")>>],
        [role |-> "User", content |-> <<ToolResultPart("A", <<TextPart("ok")>>)>>]>> }

\* the response bodies of the specification
SessionStreams == Terminated(SessionFrames, MaxFrames)

Next ==
    \/ ProvideResponse(Models, SessionConversations, MaxSessions)
    \/ Cancel
    \/ FetchOk(SessionStreams)
    \/ FetchNotOk(SessionBodies)
    \/ FetchNoBody
    \/ FetchFail
    \/ FetchAbort
    \/ TextOk
    \/ TextFail
    \/ TextAbort
    \/ LoopTop
    \/ ReadChunk(LineLen(wire))
    \/ ReadDone
    \/ ReadFail
    \/ ReadAbort

Spec == Init /\ [][Next]_vars

\* ------------------------------- SpecChunk: one stream, every chunk split
CRLFFrame(members) == DataPrefix \o <<LBrace>> \o members \o <<RBrace, CR, NL>>

ChunkFrames ==
    { Frame(<<Content("x")>>),
      <<Colon, Ch("k"), NL, NL>>,
      CRLFFrame(<<Reasoning("r")>>),
      Frame(<<ToolFrag(0, "A", "f", "{}"), Finish("tool_calls")>>) }

\* the response bodies of the specification
ChunkStreams == Terminated(ChunkFrames, MaxChunkFrames)

NextChunk ==
    \/ ProvideResponse({"deepseek-reasoner"}, SessionConversations, 1)
    \/ FetchOk(ChunkStreams)
    \/ LoopTop
    \/ ReadChunk(AnyLen(wire))
    \/ ReadDone

SpecChunk == Init /\ [][NextChunk]_vars

\* ------------------------------------ SpecTools: tool calls in fragments
ToolFrames ==
    { Frame(<<ToolFrag(0, "A", "ge", "{\"a\"")>>),
      Frame(<<ToolFrag(1, "B", "f", "{")>>),
      Frame(<<ToolFrag(0, "", "t", ":1}"), ToolFrag(1, "", "", "}")>>),
      Frame(<<Finish("tool_calls")>>) }

\* the response bodies of the specification
ToolStreams == Terminated(ToolFrames, MaxToolFrames)

NextTools ==
    \/ ProvideResponse({"deepseek-chat"}, SessionConversations, 1)
    \/ FetchOk(ToolStreams)
    \/ LoopTop
    \/ ReadChunk(LineLen(wire))
    \/ ReadDone

SpecTools == Init /\ [][NextTools]_vars

\* --------------------------- SpecCache: many cache insertions in one session
CallId(i) == "call_" \o ToString(i)

\* reasoning, then a complete tool call with a fresh id, then its drain
CallFrame(i) ==
    Frame(<<Reasoning("r"), ToolFrag(0, CallId(i), "f", "{}"), Finish("tool_calls")>>)

CacheStreams ==
    LET Calls(k) == Flatten([i \in 1..k |-> CallFrame(i)])
    IN  {Calls(k) : k \in 0..MaxCalls} \cup {Calls(k) \o DoneFrame : k \in 0..MaxCalls}

\* the next line alone
NextLine(w) == {CHOOSE n \in LineLen(w) : \A l \in LineLen(w) : n <= l}

NextCache ==
    \/ ProvideResponse({"deepseek-reasoner"}, SessionConversations, 1)
    \/ FetchOk(CacheStreams)
    \/ LoopTop
    \/ ReadChunk(NextLine(wire))
    \/ ReadDone
    \/ ReadFail

SpecCache == Init /\ [][NextCache]_vars

\* ------------------------------ SpecBridge: the bridge on every conversation
\* LanguageModelChatMessageRole: User, Assistant, and a role mapRole does not know
Roles == {"User", "Assistant", "System"}

\* the content parts of one turn
BridgeContents ==
    { <<>>,
      <<TextPart("hi")>>,
      <<TextPart("a"), TextPart("b")>>,
      <<ToolCallPart("A", "f", "{}")>>,
      <<TextPart("t"), ToolCallPart("B", "g", "{}"), ToolCallPart("A", "f", "{}")>>,
      <<ToolResultPart("A", <<TextPart("ok")>>)>>,
      <<ToolResultPart("B", <<TextPart("1")>>), TextPart("x"), ToolResultPart("A", <<>>)>>,
      <<ToolCallPart("A", "f", "{}"), ToolResultPart("A", <<TextPart("ok")>>)>> }

BridgeTurns == {[role |-> r, content |-> c] : r \in Roles, c \in BridgeContents}

\* the conversations of at most MaxTurns turns
BridgeConversations == UNION {[1..k -> BridgeTurns] : k \in 0..MaxTurns}

NextBridge ==
    \/ ProvideResponse(Models, BridgeConversations, 1)
    \/ FetchFail

SpecBridge == Init /\ [][NextBridge]_vars

\* ------------------- SpecFrames: streams of any frames, the terminator anywhere
\* a frame whose payload is cut short: JSON.parse throws
TruncatedFrame == DataPrefix \o <<LBrace, Content("z"), NL>>

\* a frame whose payload parses but whose tool_calls is a number
IllTypedFrame == Frame(<<Content("w"), BadToolCalls>>)

StreamFrames ==
    { Frame(<<Reasoning("r"), Content("y")>>),
      Frame(<<ToolFrag(0, "A", "f", "{}")>>),
      Frame(<<Finish("tool_calls")>>),
      DoneFrame,
      TruncatedFrame,
      IllTypedFrame }

\* the response bodies of the specification
FrameStreams == Streams(StreamFrames, MaxStreamFrames)

NextFrames ==
    \/ ProvideResponse({"deepseek-reasoner"}, SessionConversations, 1)
    \/ FetchOk(FrameStreams)
    \/ LoopTop
    \/ ReadChunk(LineLen(wire))
    \/ ReadDone
    \/ ReadFail

SpecFrames == Init /\ [][NextFrames]_vars

\* ------------------- SpecReasoning: reasoning and tool calls in any order
ReasoningFrames ==
    { Frame(<<Reasoning("r")>>),
      Frame(<<Reasoning("s")>>),
      Frame(<<ToolFrag(0, "A", "f", "{}"), Finish("tool_calls")>>),
      Frame(<<ToolFrag(0, "B", "g", "{}"), Finish("tool_calls")>>),
      Frame(<<ToolFrag(0, "A", "f", "{}"), ToolFrag(1, "B", "g", "{}")>>) }

\* the response bodies of the specification
ReasoningStreams == Terminated(ReasoningFrames, MaxReasoningFrames)

NextReasoning ==
    \/ ProvideResponse(Models, SessionConversations, 1)
    \/ FetchOk(ReasoningStreams)
    \/ LoopTop
    \/ ReadChunk(LineLen(wire))
    \/ ReadDone
    \/ ReadFail

SpecReasoning == Init /\ [][NextReasoning]_vars

\* ------------------------------------------------------------------ claims
\* the positions in the call history of the calls of callback cb
CallsOf(cb) == {j \in 1..Len(calls) : calls[j].cb = cb}
Terminals == CallsOf("onDone") \cup CallsOf("onError")

\* C1: in every session exactly one of onDone / onError is invoked, exactly
\* once: none while the session runs, one and only one when it is over.
ExactlyOneTerminal ==
    /\ Cardinality(Terminals) <= 1
    /\ pc = "done" => Cardinality(Terminals) = 1
    /\ pc \in {"fetch", "text", "loop", "read"} => Terminals = {}
    /\ Terminals /= {} => Terminals = {Len(calls)}

\* C1 witness: a session that delivered events and then ended on the terminator
ExactlyOneTerminalWitness ==
    /\ pc = "done"
    /\ endReason = "DONE"
    /\ CallsOf("onContent") /= {}
    /\ CallsOf("onToolCall") /= {}

\* C2: a session in which cancellation was requested before its terminal
\* callback ends with onDone, and onError is never invoked.
CancelEndsWithDone ==
    (pc = "done" /\ token) => (CallsOf("onError") = {} /\ CallsOf("onDone") /= {})

\* C2 witness: cancellation while a chunk read is outstanding, after a first
\* chunk was processed
CancelEndsWithDoneWitness ==
    /\ pc = "done"
    /\ token
    /\ endReason = "abort"
    /\ consumed /= <<>>
    /\ calls[Len(calls)].cb = "onDone"

\* the pending entries that were handed to onToolCall
Delivered(e) == \E j \in CallsOf("onToolCall") : calls[j].born = e.born

\* C3: on every normal stream end (terminator frame or socket close) every
\* tool call still pending has been delivered through onToolCall when onDone is
\* invoked.
PendingDrainedAtNormalEnd ==
    (pc = "done" /\ endReason \in {"DONE", "close"}) =>
        \A j \in 1..Len(pendingToolCalls) : Delivered(pendingToolCalls[j])

\* C4: the reasoning a session left in the cache under tool-call id X is
\* reattached by the next request: the assistant wire message of a replayed
\* turn whose first cached tool call is X carries the stored text.
ReplayedReasoningReattached ==
    [][(session' = session + 1 /\ isReasoner') =>
          \A j \in 1..Len(deepseekMessages') :
              LET m == deepseekMessages'[j]
              IN  \A i \in 1..Len(m.tool_calls) :
                      ( /\ m.role = "assistant"
                        /\ MapHas(reasoningCache, m.tool_calls[i].id)
                        /\ \A l \in 1..(i - 1) :
                               ~MapHas(reasoningCache, m.tool_calls[l].id) )
                      => m.reasoning_content = MapGet(reasoningCache, m.tool_calls[i].id)
      ]_vars

\* the reasoning fragments handed to onReasoningContent, concatenated in order
ReasoningOfCalls ==
    Concat([j \in 1..Len(calls) |->
               IF calls[j].cb = "onReasoningContent" THEN calls[j].v ELSE ""])

\* a reasoning-capable session that brought reasoning, then exactly one tool
\* call, then the terminator
ReasoningThenOneToolCall ==
    /\ pc = "done"
    /\ isReasoner
    /\ endReason = "DONE"
    /\ CallsOf("onReasoningContent") /= {}
    /\ Cardinality(CallsOf("onToolCall")) = 1
    /\ \A r \in CallsOf("onReasoningContent"), t \in CallsOf("onToolCall") : r < t

\* C8: after a reasoning-capable session whose stream brought reasoning, then
\* exactly one tool call, then the terminator, the cache holds exactly one
\* entry: the tool call's id mapped to all the reasoning in arrival order.
OneToolCallOneEntry ==
    ReasoningThenOneToolCall =>
        \E t \in CallsOf("onToolCall") :
            reasoningCache = <<[key |-> calls[t].id, value |-> ReasoningOfCalls]>>

\* C8 witness: two reasoning fragments, one tool call, the terminator
OneToolCallOneEntryWitness ==
    /\ ReasoningThenOneToolCall
    /\ Cardinality(CallsOf("onReasoningContent")) = 2

\* C10: on every exit path of a session that obtained a response, the body of
\* the response has been released (read to its end, closed or aborted).
BodyReleasedOnExit ==
    (pc = "done" /\ body /= "none") => body \in {"closed", "errored"}


\* what the caller observes of a call history: the callbacks and their payloads
Events(cs) == [j \in 1..Len(cs) |-> <<cs[j].cb, cs[j].v, cs[j].id, cs[j].name, cs[j].args>>]

\* the session that reads the whole body w as one chunk, and then the close of
\* the socket if the body has no terminator
WholeRead(w) ==
    LET s == Feed(Fresh, w) IN IF s.ret /= "" THEN s ELSE OnDone(s)

\* C5: for a fixed well-formed stream the content, reasoning and tool-call
\* callbacks, their payloads and the terminal callback are the same for every
\* split into chunks: at any point they are those of reading the bytes consumed
\* so far as one chunk, and at the end those of reading the whole body at once.
ChunkSplitInvariant ==
    /\ pc \in {"loop", "read"} => Events(calls) = Events(Feed(Fresh, consumed).calls)
    /\ pc = "done" => Events(calls) = Events(WholeRead(consumed \o wire).calls)

\* C5 witness: a chunk boundary inside the '[DONE]' sentinel, after events
\* were delivered from chunks that ended inside a frame
ChunkSplitWitness ==
    /\ pc = "read"
    /\ buffer = DataPrefix \o SubSeq(DoneSentinel, 1, 3)
    /\ CallsOf("onToolCall") /= {}
    /\ CallsOf("onReasoningContent") /= {}

\* C6: the name and the arguments of every tool call delivered through
\* onToolCall are the concatenation, in arrival order, of the name fragments and
\* of the argument fragments received at its index since its entry was created.
ToolCallIsConcatenation ==
    /\ \A j \in CallsOf("onToolCall") :
          /\ calls[j].name = Concat(calls[j].nameFrags)
          /\ calls[j].args = Concat(calls[j].argFrags)
    /\ \A j \in 1..Len(pendingToolCalls) :
          /\ pendingToolCalls[j].name = Concat(pendingToolCalls[j].nameFrags)
          /\ pendingToolCalls[j].arguments = Concat(pendingToolCalls[j].argFrags)

\* C6 witness: a delivered call assembled from two fragments
ToolCallIsConcatenationWitness ==
    \E j \in CallsOf("onToolCall") :
        /\ calls[j].argFrags = <<"{\"a\"", ":1}">>
        /\ calls[j].args = "{\"a\":1}"
        /\ calls[j].name = "get"

\* the calls of drain d, in the order they were made
DrainCalls(d) == SelectSeq(calls, LAMBDA c : c.cb = "onToolCall" /\ c.drain = d)

\* C7 as claimed: each drain delivers every pending call exactly once, in
\* ascending stream-index order.
DrainInIndexOrder ==
    \A d \in 1..Len(drains) :
        LET cs == DrainCalls(d)
        IN  /\ Len(cs) = drains[d]
            /\ \A i, j \in 1..Len(cs) : i < j => cs[i].index < cs[j].index

\* C7 amended: each drain delivers every pending call exactly once, in the
\* order in which the calls' indices first appeared in the stream.
DrainInArrivalOrder ==
    \A d \in 1..Len(drains) :
        LET cs == DrainCalls(d)
        IN  /\ Len(cs) = drains[d]
            /\ \A i, j \in 1..Len(cs) :
                  i < j => (cs[i].born < cs[j].born /\ cs[i].index /= cs[j].index)

\* C7 witness: a drain of two calls whose indices appeared in descending order
DrainInArrivalOrderWitness ==
    \E d \in 1..Len(drains) :
        /\ Len(DrainCalls(d)) = 2
        /\ DrainCalls(d)[1].index > DrainCalls(d)[2].index

\* the last n elements of a sequence
LastN(q, n) == SubSeq(q, Len(q) - n + 1, Len(q))

\* C9: whenever a session has terminated, by completion or by error, the cache
\* holds at most 50 entries, and if more were inserted, exactly the 50 most
\* recently inserted.
CacheCappedAtTermination ==
    pc = "done" =>
        /\ Len(reasoningCache) <= MaxCacheSize
        /\ Len(inserted) > MaxCacheSize =>
              [j \in 1..Len(reasoningCache) |-> reasoningCache[j].key]
                  = LastN(inserted, MaxCacheSize)

\* the session ended on a non-2xx response whose body was read
NotOkReported == pc = "done" /\ endReason = "error" /\ body = "closed"

\* the message of a non-2xx body b: its error.message when present, else its
\* message field, else the raw text
MessageOf(b) ==
    IF b.parses /\ b.errorMessage /= "" THEN b.errorMessage
    ELSE IF b.parses /\ b.message /= "" THEN b.message
    ELSE b.raw

\* C11 as claimed: for a non-2xx response the text handed to onError is exactly
\* the extracted message, with nothing added.
ErrorTextIsMessage ==
    NotOkReported =>
        /\ calls[Len(calls)].cb = "onError"
        /\ calls[Len(calls)].v = MessageOf(consumed[1])

\* C11 amended: for a non-2xx response the text handed to onError is
\* 'DeepSeek API error (<status>): ' followed by the extracted message.
ErrorTextIsPrefixedMessage ==
    NotOkReported =>
        /\ calls[Len(calls)].cb = "onError"
        /\ calls[Len(calls)].v =
               "DeepSeek API error (" \o consumed[1].status \o "): "
                   \o MessageOf(consumed[1])

\* C11 witness: the body {"error":{"message":"bad key"}} with status 401
ErrorTextIsPrefixedMessageWitness ==
    /\ NotOkReported
    /\ consumed[1].raw = "{\"error\":{\"message\":\"bad key\"}}"
    /\ calls[Len(calls)].v = "DeepSeek API error (401): bad key"

\* what C12 speaks of in a wire message: its role, and its content or, for a
\* tool message, the id it answers
Shape(m) == <<m.role, IF m.role = "tool" THEN m.tool_call_id ELSE m.content>>

\* the group of one turn: the primary message if any, then one tool message per
\* tool-result part, in the order of the parts
ExpectedGroup(turn) ==
    LET text == Concat([j \in 1..Len(turn.content) |->
                           IF turn.content[j].type = "text"
                           THEN turn.content[j].value ELSE ""])
        results == SelectSeq(turn.content, LAMBDA part : part.type = "toolResult")
        primary == IF turn.role = "Assistant" THEN << <<"assistant", text>> >>
                   ELSE IF text /= "" THEN << <<"user", text>> >>
                   ELSE <<>>
    IN  primary \o [j \in 1..Len(results) |-> <<"tool", results[j].callId>>]

\* C12: the wire messages of a conversation are, turn by turn and in turn
\* order, the turn's primary message (always for an assistant turn, for a user
\* turn exactly when its text is not empty) followed by one tool message per
\* tool-result part in part order, and nothing else.
TurnGroupsInOrder ==
    [j \in 1..Len(deepseekMessages) |-> Shape(deepseekMessages[j])]
        = Flatten([t \in 1..Len(conversation) |-> ExpectedGroup(conversation[t])])

\* C12 witness: an assistant turn without text and a user turn that has only a
\* tool result: an assistant message with empty content, then a tool message
TurnGroupsInOrderWitness ==
    /\ Len(conversation) = 2
    /\ conversation[1].role = "Assistant"
    /\ conversation[2].role = "User"
    /\ Len(deepseekMessages) = 2
    /\ deepseekMessages[1].content = ""
    /\ deepseekMessages[2].role = "tool"

\* wire message j is a tool message with one tool_call_id that follows an
\* assistant message whose tool_calls holds that id
ToolMessageAnswers(out, j) ==
    /\ "tool_call_id" \in out[j].has
    /\ out[j].tool_call_id /= ""
    /\ \E i \in 1..(j - 1) :
          /\ out[i].role = "assistant"
          /\ \E c \in 1..Len(out[i].tool_calls) : out[i].tool_calls[c].id = out[j].tool_call_id

\* C13 as claimed: for any conversation, every tool message carries one
\* tool_call_id and comes strictly after an assistant message whose tool_calls
\* contains that id.
ToolMessagesAnswerACall ==
    \A j \in 1..Len(deepseekMessages) :
        deepseekMessages[j].role = "tool" => ToolMessageAnswers(deepseekMessages, j)

\* every tool-result part refers to a tool-call part of the same or an earlier
\* assistant turn
ResultsReferToCalls(conv) ==
    \A t \in 1..Len(conv) : \A p \in 1..Len(conv[t].content) :
        conv[t].content[p].type = "toolResult" =>
            \E u \in 1..t :
                /\ conv[u].role = "Assistant"
                /\ \E q \in 1..Len(conv[u].content) :
                      /\ conv[u].content[q].type = "toolCall"
                      /\ conv[u].content[q].callId = conv[t].content[p].callId

\* C13 amended: for a conversation whose tool results all refer to a tool call
\* of the same or an earlier assistant turn, every tool message carries one
\* tool_call_id and comes strictly after an assistant message whose tool_calls
\* contains that id.
ToolMessagesAnswerWhenCalled ==
    ResultsReferToCalls(conversation) => ToolMessagesAnswerACall

\* C13 witness: two tool results answering the two calls of an earlier turn
ToolMessagesAnswerWhenCalledWitness ==
    /\ ResultsReferToCalls(conversation)
    /\ Len(conversation) = 2
    /\ Len(deepseekMessages) = 4
    /\ deepseekMessages[1].role = "assistant"
    /\ deepseekMessages[3].role = "tool"
    /\ deepseekMessages[4].role = "tool"
    /\ deepseekMessages[3].tool_call_id /= deepseekMessages[4].tool_call_id

\* the caches a reasoning-capable session can leave behind for the tool calls
\* A and B
ReplayCaches ==
    { <<>>,
      <<[key |-> "A", value |-> "r"]>>,
      <<[key |-> "B", value |-> "s"]>>,
      <<[key |-> "A", value |-> "r"], [key |-> "B", value |-> "s"]>> }

\* the cached text of the first of the tool calls tcs that has an entry
FirstHit(tcs, cache) ==
    IF \E c \in 1..Len(tcs) : MapHas(cache, tcs[c].id)
    THEN LET c == CHOOSE c \in 1..Len(tcs) :
                      /\ MapHas(cache, tcs[c].id)
                      /\ \A b \in 1..(c - 1) : ~MapHas(cache, tcs[b].id)
         IN  MapGet(cache, tcs[c].id)
    ELSE ""

\* in the wire messages out, made for a reasoning-capable or other target from
\* the given cache, reasoning_content is on the assistant messages of a
\* reasoning-capable target and nowhere else, and holds the first hit
ReasoningField(out, reasoner, cache) ==
    \A j \in 1..Len(out) :
        /\ ("reasoning_content" \in out[j].has) <=> (reasoner /\ out[j].role = "assistant")
        /\ ("reasoning_content" \in out[j].has) =>
               out[j].reasoning_content = FirstHit(out[j].tool_calls, cache)

\* C14: reasoning_content is present on every assistant wire message when the
\* target is reasoning-capable, absent from every wire message otherwise and
\* from every user and tool message, and when present holds the cached text of
\* the turn's first tool call, in encounter order, that has a cache entry, or
\* the empty string: in the request as sent, and for the current conversation
\* converted against any content of the cache.
ReasoningFieldFirstHit ==
    /\ ReasoningField(deepseekMessages, isReasoner, reasoningCache)
    /\ \A cache \in ReplayCaches :
          ReasoningField(ConvertMessages(conversation, isReasoner, cache), isReasoner, cache)

\* C14 witness: a reasoning-capable request replaying a turn with the calls B
\* then A, both of which can be cached
ReasoningFieldFirstHitWitness ==
    /\ isReasoner
    /\ \E j \in 1..Len(deepseekMessages) :
          /\ deepseekMessages[j].role = "assistant"
          /\ Len(deepseekMessages[j].tool_calls) = 2
          /\ "reasoning_content" \in deepseekMessages[j].has
          /\ \E cache \in ReplayCaches :
                ConvertMessages(conversation, isReasoner, cache)[j].reasoning_content = "s"

\* a 'data: ' line whose payload JSON.parse rejects
MalformedLine(line) ==
    LET trimmed == Trim(line)
    IN  /\ StartsWith(trimmed, DataPrefix)
        /\ trimmed /= DoneLine
        /\ ~JsonOk(Slice(trimmed, PrefixLen))

\* the complete lines of w, and what follows its last newline
CompleteLines(w) == SubSeq(SplitLines(w), 1, Len(SplitLines(w)) - 1)
Remainder(w) == SplitLines(w)[Len(SplitLines(w))]

\* the bytes w with the malformed frames removed
WithoutMalformed(w) ==
    LET kept == SelectSeq(CompleteLines(w), LAMBDA line : ~MalformedLine(line))
    IN  Flatten([j \in 1..Len(kept) |-> kept[j] \o <<NL>>]) \o Remainder(w)

\* the session ended because the transport failed while the body was read
TransportFailed == pc = "done" /\ body = "errored"

\* C15: a malformed 'data: ' frame is skipped and the session continues: as
\* long as the transport does not fail, the callbacks, the pending tool calls
\* and the end of the session are those of the same stream with the malformed
\* frames removed.
MalformedFrameSkipped ==
    (pc \in {"loop", "read", "done"} /\ ~TransportFailed) =>
        LET ref == Feed(Fresh, WithoutMalformed(consumed))
            end == IF endReason = "close" THEN OnDone(ref) ELSE ref
        IN  /\ Events(calls) = Events(end.calls)
            /\ pendingToolCalls = ref.pending
            /\ (pc = "done") <=> (endReason = "close" \/ ref.ret = "DONE")

\* C15 witness: a stream that opens with a malformed frame and went on to
\* deliver content and to end on the terminator
MalformedFrameSkippedWitness ==
    /\ pc = "done"
    /\ endReason = "DONE"
    /\ StartsWith(consumed, TruncatedFrame)
    /\ CallsOf("onContent") /= {}

\* C16: the terminal callback is the last callback of the session: once onDone or
\* onError has been invoked the session is over and nothing follows it in the
\* call history, whatever follows 'data: [DONE]' in the chunk or on the wire.
TerminalIsLastCallback ==
    \A t \in Terminals : t = Len(calls) /\ pc = "done"

\* C16 witness: the terminator was read in a chunk that goes on with a content
\* frame, and more frames are still on the wire
TerminalIsLastCallbackWitness ==
    /\ pc = "done"
    /\ endReason = "DONE"
    /\ wire /= <<>>
    /\ \E n \in 1..Len(consumed) :
          /\ SubSeq(consumed, 1, n) = DoneFrame
          /\ SubSeq(consumed, n + 1, Len(consumed)) = Frame(<<Reasoning("r"), Content("y")>>)
    /\ calls[Len(calls)].cb = "onDone"

\* the position of the last onToolCall before position j of the call history,
\* 0 when there is none
LastToolCallBefore(j) ==
    IF \E i \in CallsOf("onToolCall") : i < j
    THEN CHOOSE i \in CallsOf("onToolCall") :
             i < j /\ \A l \in CallsOf("onToolCall") : l < j => l <= i
    ELSE 0

\* the reasoning received between the last tool call before position j and
\* position j
ReasoningBefore(j) ==
    Concat([l \in 1..(j - 1) |->
               IF l > LastToolCallBefore(j) /\ calls[l].cb = "onReasoningContent"
               THEN calls[l].v ELSE ""])

\* C17 as claimed: a reasoning-capable session leaves a synthetic-id entry only
\* when it produced reasoning and no tool call.
SyntheticOnlyWithoutToolCall ==
    (pc = "done" /\ isReasoner /\ MapHas(reasoningCache, SyntheticId)) =>
        (CallsOf("onReasoningContent") /= {} /\ CallsOf("onToolCall") = {})

\* C17 amended: a reasoning-capable session that completes leaves a
\* synthetic-id entry exactly when reasoning was received after its last
\* delivered tool call (or with no tool call at all), holding that reasoning; a
\* session that ends in onError leaves none.
SyntheticHoldsTrailingReasoning ==
    (pc = "done" /\ isReasoner) =>
        LET trailing == ReasoningBefore(Len(calls))
        IN  IF calls[Len(calls)].cb = "onDone"
            THEN /\ MapHas(reasoningCache, SyntheticId) <=> trailing /= ""
                 /\ MapGet(reasoningCache, SyntheticId) = trailing
            ELSE ~MapHas(reasoningCache, SyntheticId)

\* C17 witness: a tool call stored with its reasoning, then more reasoning that
\* ends up under the synthetic id
SyntheticHoldsTrailingReasoningWitness ==
    /\ pc = "done"
    /\ isReasoner
    /\ MapGet(reasoningCache, "A") = "r"
    /\ MapGet(reasoningCache, SyntheticId) = "s"

\* the first tool call delivered in the session
FirstToolCall == CHOOSE j \in CallsOf("onToolCall") : \A l \in CallsOf("onToolCall") : j <= l

\* C18 as claimed: in a reasoning-capable session only the first delivered tool
\* call gets a cache entry; a later call with another id never gets one.
OnlyFirstToolCallCached ==
    isReasoner =>
        \A j \in CallsOf("onToolCall") :
            calls[j].id /= calls[FirstToolCall].id => ~MapHas(reasoningCache, calls[j].id)

\* the deliveries of the tool-call id x that had reasoning to store
Stores(x) ==
    {j \in CallsOf("onToolCall") : calls[j].id = x /\ ReasoningBefore(j) /= ""}

\* C18 amended: in a reasoning-capable session a delivered tool call gets a
\* cache entry under its id exactly when reasoning was received since the
\* previous delivery, and the entry holds that reasoning: a second call has no
\* entry when no reasoning streamed in between, and its own entry when some did.
ToolCallCachedWithReasoningSince ==
    isReasoner =>
        \A j \in CallsOf("onToolCall") :
            LET x == calls[j].id
            IN  /\ MapHas(reasoningCache, x) <=> Stores(x) /= {}
                /\ Stores(x) /= {} =>
                       \E w \in Stores(x) :
                           /\ \A l \in Stores(x) : l <= w
                           /\ MapGet(reasoningCache, x) = ReasoningBefore(w)

\* C18 witness: reasoning, a first tool call, more reasoning, a second tool call:
\* both calls have their entry
ToolCallCachedWithReasoningSinceWitness ==
    /\ isReasoner
    /\ Cardinality(CallsOf("onToolCall")) = 2
    /\ MapGet(reasoningCache, "A") = "r"
    /\ MapGet(reasoningCache, "B") = "s"

\* the lines of w the session processes: the complete lines up to the first
\* 'data: [DONE]'
RECURSIVE UpToDone(_)
UpToDone(lines) ==
    IF lines = <<>> THEN <<>>
    ELSE IF Trim(Head(lines)) = DoneLine THEN <<Head(lines)>>
    ELSE <<Head(lines)>> \o UpToDone(Tail(lines))

ProcessedLines(w) == UpToDone(CompleteLines(w))

\* the reasoning and content fragments of a line, as <<callback, fragment>>:
\* those of its payload when the line is a 'data: ' frame that parses
TextEventsOf(line) ==
    LET trimmed == Trim(line)
        payload == Slice(trimmed, PrefixLen)
        decoded == StartsWith(trimmed, DataPrefix) /\ JsonOk(payload)
        frags(k) == SelectSeq(IF decoded THEN Members(payload) ELSE <<>>,
                              LAMBDA t : t.k = k /\ t.v /= "")
    IN  [j \in 1..Len(frags("reasoning_content")) |->
            <<"onReasoningContent", frags("reasoning_content")[j].v>>]
        \o [j \in 1..Len(frags("content")) |-> <<"onContent", frags("content")[j].v>>]

\* the text callbacks of the call history, as <<callback, payload>>
TextCalls ==
    LET cs == SelectSeq(calls, LAMBDA c : c.cb \in {"onReasoningContent", "onContent"})
    IN  [j \in 1..Len(cs) |-> <<cs[j].cb, cs[j].v>>]

\* C19: events are delivered live and in stream order: whenever the session
\* waits for a chunk or is over, the content and reasoning callbacks made so
\* far are exactly the fragments of the frames read so far (up to the
\* terminator), frame by frame in stream order, so the onContent payloads
\* concatenate to the content of the processed frames.
TextDeliveredLive ==
    pc \in {"loop", "read", "done"} =>
        LET lines == ProcessedLines(consumed)
        IN  TextCalls = Flatten([j \in 1..Len(lines) |-> TextEventsOf(lines[j])])

\* C19 witness: the session waits for the next chunk, two chunks having brought
\* content that was forwarded
TextDeliveredLiveWitness ==
    /\ pc = "read"
    /\ wire /= <<>>
    /\ Cardinality(CallsOf("onContent")) = 2
    /\ \E i, j \in CallsOf("onContent") : calls[i].v = "y" /\ calls[j].v = "w" /\ i < j

\* C20: no pending entry is delivered twice: no two onToolCall calls of a
\* session deliver the same accumulator entry, whether the entry was drained on
\* finish_reason 'tool_calls' and the marker is repeated or 'data: [DONE]'
\* follows.
NoToolCallDeliveredTwice ==
    \A i, j \in CallsOf("onToolCall") : calls[i].born = calls[j].born => i = j

\* C20 witness: a call drained on the finish marker, the marker repeated, then
\* the terminator
NoToolCallDeliveredTwiceWitness ==
    /\ pc = "done"
    /\ endReason = "DONE"
    /\ Len(drains) = 3
    /\ drains[1] = 1
    /\ Cardinality(CallsOf("onToolCall")) = 1

\* C21: a session for a model that is not reasoning-capable never writes the
\* reasoning cache: from its start until the start of the next session the
\* cache is empty and nothing is inserted, whatever reasoning fragments and
\* tool calls the stream carries.
NonReasonerNeverWritesCache ==
    (session >= 1 /\ ~isReasoner) => (reasoningCache = <<>> /\ inserted = <<>>)

\* C21 witness: a second session, not reasoning-capable, that received
\* reasoning, then delivered a tool call, then more reasoning, and completed
NonReasonerNeverWritesCacheWitness ==
    /\ session = 2
    /\ ~isReasoner
    /\ pc = "done"
    /\ calls[Len(calls)].cb = "onDone"
    /\ \E r \in CallsOf("onReasoningContent"), t \in CallsOf("onToolCall"),
          q \in CallsOf("onReasoningContent") : r < t /\ t < q
    /\ currentReasoningContent /= ""
    /\ reasoningCache = <<>>

====
